---- MODULE Spec2Model ----
(***************************************************************************)
(* Model of jupyter_client/launcher.py: launch_kernel, async_launch_kernel *)
(* and their helpers _prepare_process_args, _handle_subprocess_exception   *)
(* and _finish_process_launch.                                             *)
(*                                                                         *)
(* Strings that the code inspects character by character (command          *)
(* elements, home directories) are sequences of one-character strings.     *)
(* Python's None is the string "None" for string-valued slots, NoEvent for *)
(* the interrupt event and NoProc for the process handle.  A dict is a     *)
(* function whose DOMAIN is its key set.                                   *)
(***************************************************************************)
EXTENDS Integers, Sequences, FiniteSets, TLC

VARIABLES
    platform,        \* sys.platform
    redirect_out,    \* sys.executable.endswith("pythonw.exe")
    os_environ,      \* os.environ of the launching process
    userhome,        \* what HOME / the passwd entry of the invoking user gives
    pwdb,            \* passwd database: user name -> home directory
    callerEnv,       \* contents of the mapping object the caller passes as env
    callerEnv0,      \* contents that mapping had when the caller built it
    pc,              \* position of the current launch call
    fn,              \* which function is running
    req,             \* the arguments of the current call
    startEnv,        \* contents of the starting environment at call time
    kwargs,          \* local kwargs of the call (the spawn plan)
    interrupt_event, \* local interrupt_event of the call
    cmd,             \* local cmd of the call
    proc,            \* local proc of the call
    exc,             \* exception caught / raised by the call
    log,             \* messages handed to get_logger().error in this call
    trace,           \* events of this call, in order
    obs,             \* what the OS and the logger did in this call
    last,            \* summary of the previous completed call, or <<>>
    xcmd,            \* expanduser harness: a command
    xout             \* expanduser harness: its expansion, or <<"pending">>

vars == <<platform, redirect_out, os_environ, userhome, pwdb, callerEnv,
          callerEnv0, pc, fn, req, startEnv, kwargs, interrupt_event, cmd,
          proc, exc, log, trace, obs, last, xcmd, xout>>

world == <<platform, redirect_out, os_environ, userhome, pwdb>>
frame == <<pc, fn, req, startEnv, kwargs, interrupt_event, cmd, proc, exc,
           log, trace, obs>>
harness == <<xcmd, xout>>

(***************************************************************************)
(* Bounds                                                                  *)
(***************************************************************************)
MaxLen == 2        \* longest command element of the expanduser harness
MaxCmd == 2        \* longest command of the expanduser harness

(***************************************************************************)
(* Values                                                                  *)
(***************************************************************************)
PIPE == "PIPE"
NoEvent == 0
NoProc == [handle |-> "None"]
NoHome == <<"KeyError">>
CREATE_NEW_PROCESS_GROUP == 512
CREATE_NO_WINDOW == 134217728
Pid == 4242
ParentHandle == 77

Str(n) == ToString(n)

Defpath == IF platform = "win32" THEN ".;C:\\bin" ELSE "/bin:/usr/bin"

EmptyDict == [k \in {} |-> "None"]

Put(d, k, v) == [x \in (DOMAIN d) \cup {k} |-> IF x = k THEN v ELSE d[x]]

Update(d, e) ==
    [x \in (DOMAIN d) \cup (DOMAIN e) |-> IF x \in DOMAIN e THEN e[x] ELSE d[x]]

Get(d, k, default) == IF k \in DOMAIN d THEN d[k] ELSE default

RECURSIVE BitOr(_, _)
BitOr(a, b) ==
    IF a = 0 THEN b
    ELSE IF b = 0 THEN a
    ELSE (IF (a % 2 = 1) \/ (b % 2 = 1) THEN 1 ELSE 0)
         + 2 * BitOr(a \div 2, b \div 2)

HasBit(a, bit) == (a \div bit) % 2 = 1

(***************************************************************************)
(* os.path.expanduser (posixpath), applied at launcher.py:68 and :124      *)
(***************************************************************************)
RECURSIVE Find(_, _, _)
\* 1-based index of the first ch in path at or after position i, 0 if none
Find(path, ch, i) ==
    IF i > Len(path) THEN 0
    ELSE IF path[i] = ch THEN i
    ELSE Find(path, ch, i + 1)

RECURSIVE RStrip(_, _)
RStrip(s, ch) ==
    IF s # <<>> /\ s[Len(s)] = ch THEN RStrip(SubSeq(s, 1, Len(s) - 1), ch)
    ELSE s

\* variant: every leading "~", also that of "~name", is the invoking user's
ExpandUserAllOwn(path) ==
    IF ~(Len(path) > 0 /\ path[1] = "~") THEN path
    ELSE LET f == Find(path, "/", 2)
             i == IF f = 0 THEN Len(path) + 1 ELSE f
         IN  IF userhome = NoHome THEN path
             ELSE LET r == RStrip(userhome, "/") \o SubSeq(path, i, Len(path))
                  IN  IF r = <<>> THEN <<"/">> ELSE r

ExpandUser(path) ==
    IF ~(Len(path) > 0 /\ path[1] = "~") THEN path
    ELSE LET f == Find(path, "/", 2)
             i == IF f = 0 THEN Len(path) + 1 ELSE f
             name == SubSeq(path, 2, i - 1)
             known == IF i = 2 THEN userhome # NoHome ELSE name \in DOMAIN pwdb
             home == IF i = 2 THEN userhome ELSE pwdb[name]
         IN  IF ~known THEN path
             ELSE LET r == RStrip(home, "/") \o SubSeq(path, i, Len(path))
                  IN  IF r = <<>> THEN <<"/">> ELSE r

\* list(map(os.path.expanduser, cmd))
ExpandCmd(c) == [j \in 1..Len(c) |-> ExpandUser(c[j])]

(***************************************************************************)
(* _prepare_process_args                                                   *)
(***************************************************************************)
\* lines 217-219, variant: the deprecated alias is forgotten
InjectInterruptEventNoAlias(env, event) ==
    Put(env, "JPY_INTERRUPT_EVENT", Str(event))

\* lines 217-219
InjectInterruptEvent(env, event) ==
    LET e1 == Put(env, "JPY_INTERRUPT_EVENT", Str(event))
    IN  Put(e1, "IPY_INTERRUPT_EVENT", e1["JPY_INTERRUPT_EVENT"])

\* line 238, variant: the creation flag is not set
NewProcessGroupOmitted(kw) == kw

\* line 238
NewProcessGroup(kw) == Put(kw, "creationflags", CREATE_NEW_PROCESS_GROUP)

\* lines 252-255
NoConsoleWindow(kw) ==
    Put(kw, "creationflags", BitOr(Get(kw, "creationflags", 0), CREATE_NO_WINDOW))

\* r: the arguments; heapEnv: contents of the mapping r.env refers to;
\* o: what create_interrupt_event and DuplicateHandle do.
\* Result: raised ("None" or the exception), kwargs, interrupt_event and env,
\* the contents of the env mapping when the function is left.
PrepareProcessArgs(r, heapEnv, o) ==
    LET _stdin == IF r.stdin = "None" THEN PIPE ELSE r.stdin
        _stdout == IF redirect_out /\ r.stdout = "None" THEN "blackhole"
                   ELSE r.stdout
        _stderr == IF redirect_out /\ r.stderr = "None" THEN "blackhole"
                   ELSE r.stderr
        env0 == IF r.env # "None" THEN heapEnv ELSE os_environ
        main_args(e) == [k \in {"stdin", "stdout", "stderr", "cwd", "env"} |->
                            CASE k = "stdin" -> _stdin
                              [] k = "stdout" -> _stdout
                              [] k = "stderr" -> _stderr
                              [] k = "cwd" -> r.cwd
                              [] k = "env" -> e]
        kw0(e) == Update(r.kw, main_args(e))
    IN  IF platform = "win32"
        THEN IF o.winres = "event_fail"
             THEN [raised |-> "OSError", kwargs |-> kw0(env0),
                   interrupt_event |-> NoEvent, env |-> env0]
             ELSE LET event == o.token
                      env1 == InjectInterruptEvent(env0, event)
                  IN  IF ~r.independent /\ o.winres = "dup_fail"
                      THEN [raised |-> "OSError", kwargs |-> kw0(env1),
                            interrupt_event |-> event, env |-> env1]
                      ELSE LET env2 == IF r.independent THEN env1
                                       ELSE Put(env1, "JPY_PARENT_PID",
                                                Str(ParentHandle))
                               kw1 == IF r.independent
                                      THEN NewProcessGroup(kw0(env2))
                                      ELSE kw0(env2)
                               kw2 == IF redirect_out THEN NoConsoleWindow(kw1)
                                      ELSE kw1
                           IN  [raised |-> "None",
                                kwargs |-> Put(kw2, "close_fds", FALSE),
                                interrupt_event |-> event, env |-> env2]
        ELSE LET env1 == IF ~r.independent
                         THEN Put(env0, "JPY_PARENT_PID", Str(Pid))
                         ELSE env0
             IN  [raised |-> "None",
                  kwargs |-> Put(kw0(env1), "start_new_session", TRUE),
                  interrupt_event |-> NoEvent, env |-> env1]

(***************************************************************************)
(* _handle_subprocess_exception                                            *)
(***************************************************************************)
WithoutEnv(kw) == [k \in (DOMAIN kw) \ {"env"} |-> kw[k]]

\* The try block (lines 146-156): env is the env ARGUMENT of the launch
\* call, so env.get fails with AttributeError when the caller passed None.
\* logger: what get_logger().error does once it is invoked.
Diagnostic(c, envIsNone, env, kw, logger) ==
    IF envIsNone THEN [log |-> <<>>, pending |-> "AttributeError"]
    ELSE [log |-> << [cmd |-> c, PATH |-> Get(env, "PATH", Defpath),
                      kwargs |-> WithoutEnv(kw)] >>,
          pending |-> IF logger = "raises" THEN "LoggingError" ELSE "None"]

\* variant: the original exception is raised only when the try block succeeds
HandleSubprocessExceptionNoFinally(e, c, envIsNone, env, kw, logger) ==
    LET d == Diagnostic(c, envIsNone, env, kw, logger)
    IN  [log |-> d.log,
         raised |-> IF d.pending # "None" THEN d.pending ELSE e]

\* variant: a session-creation failure is reported and then tolerated
HandleSubprocessExceptionTolerant(e, c, envIsNone, env, kw, logger) ==
    LET d == Diagnostic(c, envIsNone, env, kw, logger)
    IN  [log |-> d.log, raised |-> IF e = "PermissionError" THEN "None" ELSE e]

\* lines 141-158: whatever the try block did, finally raises exc
HandleSubprocessException(e, c, envIsNone, env, kw, logger) ==
    LET d == Diagnostic(c, envIsNone, env, kw, logger)
    IN  [log |-> d.log, raised |-> e]

(***************************************************************************)
(* _finish_process_launch                                                  *)
(***************************************************************************)
\* variant: the synthesized pipe is left open
FinishProcessLaunchNoClose(subprocess, stdin, event) ==
    IF subprocess.handle = "None"
    THEN [raised |-> "AssertionError", proc |-> subprocess, events |-> <<>>]
    ELSE LET p1 == IF platform = "win32"
                   THEN [subprocess EXCEPT !.attrs =
                            Put(@, "win32_interrupt_event", event)]
                   ELSE subprocess
         IN  [raised |-> "None", proc |-> p1,
              events |-> IF platform = "win32" THEN <<"attach">> ELSE <<>>]

\* lines 276-289
FinishProcessLaunch(subprocess, stdin, event) ==
    IF subprocess.handle = "None"
    THEN [raised |-> "AssertionError", proc |-> subprocess, events |-> <<>>]
    ELSE LET p1 == IF platform = "win32"
                   THEN [subprocess EXCEPT !.attrs =
                            Put(@, "win32_interrupt_event", event)]
                   ELSE subprocess
             p2 == IF stdin = "None" THEN [p1 EXCEPT !.stdin = "closed"]
                   ELSE p1
         IN  [raised |-> "None", proc |-> p2,
              events |-> (IF platform = "win32" THEN <<"attach">> ELSE <<>>)
                         \o (IF stdin = "None" THEN <<"close">> ELSE <<>>)]

(***************************************************************************)
(* The spawn primitives: subprocess.Popen and                              *)
(* asyncio.create_subprocess_exec, as the launcher sees them               *)
(***************************************************************************)
\* What the primitive can do with a plan.  A child that cannot create its
\* session (setsid fails before exec) makes the primitive raise OSError in
\* the parent, like any failure of the child before exec.
SpawnOutcomes(kw) ==
    {"ok", "ENOENT", "interrupted"}
    \cup (IF platform # "win32" /\ Get(kw, "start_new_session", FALSE)
          THEN {"setsid_EPERM"} ELSE {})

SpawnException(outcome, primitive) ==
    CASE outcome = "ENOENT" -> "FileNotFoundError"
      [] outcome = "setsid_EPERM" -> "PermissionError"
      [] outcome = "interrupted" ->
            IF primitive = "Popen" THEN "KeyboardInterrupt" ELSE "CancelledError"
      [] OTHER -> "None"

\* "except Exception" catches these; KeyboardInterrupt and CancelledError
\* derive from BaseException only
IsException(e) == e \in {"FileNotFoundError", "PermissionError"}

\* the handle a successful primitive returns
NewProcess(primitive, kw) ==
    [handle |-> IF primitive = "Popen" THEN "Popen" ELSE "Process",
     stdin |-> IF kw["stdin"] = PIPE THEN "open" ELSE "none",
     attrs |-> [k \in {} |-> NoEvent]]


(***************************************************************************)
(* Inputs                                                                  *)
(***************************************************************************)
Fns == {"launch_kernel", "async_launch_kernel"}

CmdTilde == << <<"~", "/", "k">>, <<"-", "f">> >>
CmdPlain == << <<"/", "x">> >>

KwChoices ==
    { EmptyDict,
      [k \in {"start_new_session"} |-> TRUE],
      [k \in {"creationflags"} |-> CREATE_NEW_PROCESS_GROUP] }

Requests ==
    { [cmd |-> c[1], cwd |-> c[2], stdin |-> i, stdout |-> o[1],
       stderr |-> o[2], env |-> e, independent |-> d, kw |-> k] :
        c \in {<<CmdTilde, "None">>, <<CmdPlain, "/w">>},
        i \in {"None", "fd0"},
        o \in {<<"None", "None">>, <<"fd1", "None">>},
        e \in {"None", "caller"},
        d \in BOOLEAN,
        k \in KwChoices }

EnvChoices ==
    { [k \in {"PATH"} |-> "/opt/bin"],
      [k \in {"JPY_PARENT_PID"} |-> "1"] }

OsEnvironChoices ==
    { [k \in {"PATH"} |-> "/usr/bin"],
      [k \in {"JPY_PARENT_PID"} |-> "1"] }

Tokens == {11, 12}

\* In a call that repeats the previous one (CallTwin) the OS and the logger
\* answer as they did in the call it repeats; their other answers are those
\* of the same call made through Call.
Replays(field, value) == last = <<>> \/ last[1].obs[field] = value

\* what create_interrupt_event and DuplicateHandle can do
PrepOracles ==
    { o \in (IF platform = "win32"
             THEN [token : Tokens, winres : {"ok", "dup_fail"}]
                  \cup {[token |-> NoEvent, winres |-> "event_fail"]}
             ELSE {[token |-> NoEvent, winres |-> "ok"]}) :
        Replays("token", o.token) /\ Replays("winres", o.winres) }

\* what get_logger().error can do when it is invoked
LoggerOutcomes == {lg \in {"ok", "raises"} : Replays("logger", lg)}

ObsInit == [token |-> NoEvent, winres |-> "-", primitive |-> "-",
            spawn |-> "-", logger |-> "-"]

IdleReq == [cmd |-> <<>>, cwd |-> "None", stdin |-> "None", stdout |-> "None",
            stderr |-> "None", env |-> "None", independent |-> FALSE,
            kw |-> EmptyDict]

FrameIdle ==
    /\ pc = "idle" /\ fn = "launch_kernel" /\ req = IdleReq
    /\ startEnv = EmptyDict /\ kwargs = EmptyDict
    /\ interrupt_event = NoEvent /\ cmd = <<>> /\ proc = NoProc
    /\ exc = "None" /\ log = <<>> /\ trace = <<>> /\ obs = ObsInit

Init ==
    /\ platform \in {"linux", "win32"}
    /\ redirect_out \in (IF platform = "win32" THEN BOOLEAN ELSE {FALSE})
    /\ os_environ \in OsEnvironChoices
    /\ userhome = <<"/", "h">>
    /\ pwdb = [n \in {} |-> <<>>]
    /\ callerEnv \in EnvChoices
    /\ callerEnv0 = callerEnv
    /\ FrameIdle
    /\ last = <<>>
    /\ xcmd = <<>>
    /\ xout = [done |-> TRUE, cmd |-> <<>>]

(***************************************************************************)
(* The caller                                                              *)
(***************************************************************************)
Summary ==
    [fn |-> fn, req |-> req, startEnv |-> startEnv, obs |-> obs,
     kwargs |-> kwargs, interrupt_event |-> interrupt_event, cmd |-> cmd,
     proc |-> proc, exc |-> exc, log |-> log, trace |-> trace, pc |-> pc,
     envAfter |-> IF req.env = "None" THEN EmptyDict ELSE callerEnv]

Enter(f, r) ==
    /\ fn' = f
    /\ req' = r
    /\ cmd' = r.cmd
    /\ proc' = NoProc                      \* lines 61 and 117
    /\ pc' = "called"
    /\ UNCHANGED <<kwargs, interrupt_event, exc, log, trace, obs>>

\* The caller calls one of the two functions, passing None or its mapping
\* object (the same object as in its earlier calls) as env.
Call ==
    /\ pc = "idle"
    /\ last = <<>>
    /\ \E f \in Fns, r \in Requests :
          /\ platform # "win32" => "creationflags" \notin DOMAIN r.kw
          /\ Enter(f, r)
          /\ startEnv' = IF r.env = "None" THEN os_environ ELSE callerEnv
    /\ UNCHANGED <<world, callerEnv, callerEnv0, last, harness>>

\* The caller repeats its previous request with the other function, passing
\* a new mapping object with the contents the previous one started with.
CallTwin ==
    /\ pc = "idle"
    /\ last # <<>>
    /\ LET l == last[1]
       IN  /\ Enter(CHOOSE f \in Fns : f # l.fn, l.req)
           /\ startEnv' = l.startEnv
           /\ IF l.req.env = "None"
              THEN UNCHANGED <<callerEnv, callerEnv0>>
              ELSE callerEnv' = l.startEnv /\ callerEnv0' = l.startEnv
    /\ UNCHANGED <<world, last, harness>>

\* The call has returned or raised; the caller takes the outcome, and may
\* go on to repeat the request once with the other function.
Done ==
    /\ pc \in {"returned", "raised"}
    /\ \E again \in (IF last = <<>> THEN BOOLEAN ELSE {FALSE}) :
          last' = IF again THEN <<Summary>> ELSE <<>>
    /\ pc' = "idle" /\ fn' = "launch_kernel" /\ req' = IdleReq
    /\ startEnv' = EmptyDict /\ kwargs' = EmptyDict
    /\ interrupt_event' = NoEvent /\ cmd' = <<>> /\ proc' = NoProc
    /\ exc' = "None" /\ log' = <<>> /\ trace' = <<>> /\ obs' = ObsInit
    /\ UNCHANGED <<world, callerEnv, callerEnv0, harness>>

(***************************************************************************)
(* launch_kernel                                                           *)
(***************************************************************************)
\* lines 63-64
LaunchKernelPrepare ==
    /\ pc = "called" /\ fn = "launch_kernel"
    /\ \E o \in PrepOracles :
          LET res == PrepareProcessArgs(req, callerEnv, o)
          IN  /\ obs' = [obs EXCEPT !.token = o.token, !.winres = o.winres]
              /\ callerEnv' = IF req.env # "None" THEN res.env ELSE callerEnv
              /\ IF res.raised # "None"
                 THEN /\ pc' = "raised" /\ exc' = res.raised
                      /\ trace' = trace \o <<"raise">>
                      /\ UNCHANGED <<kwargs, interrupt_event>>
                 ELSE /\ pc' = "prepared" /\ exc' = exc
                      /\ trace' = trace \o <<"prepare">>
                      /\ kwargs' = res.kwargs
                      /\ interrupt_event' = res.interrupt_event
    /\ UNCHANGED <<world, callerEnv0, fn, req, startEnv, cmd, proc, log, last,
                   harness>>

\* lines 66-71
LaunchKernelSpawn ==
    /\ pc = "prepared" /\ fn = "launch_kernel"
    /\ cmd' = ExpandCmd(cmd)
    /\ \E out \in {x \in SpawnOutcomes(kwargs) : Replays("spawn", x)} :
          LET e == SpawnException(out, "Popen")
          IN  /\ obs' = [obs EXCEPT !.spawn = out, !.primitive = "Popen"]
              /\ IF out = "ok"
                 THEN /\ proc' = NewProcess("Popen", kwargs)
                      /\ pc' = "spawned" /\ exc' = exc
                      /\ trace' = trace \o <<"spawn">>
                 ELSE /\ proc' = proc /\ exc' = e
                      /\ pc' = IF IsException(e) THEN "except" ELSE "raised"
                      /\ trace' = trace \o <<"spawn">>
                                  \o (IF IsException(e) THEN <<>> ELSE <<"raise">>)
    /\ UNCHANGED <<world, callerEnv, callerEnv0, fn, req, startEnv, kwargs,
                   interrupt_event, log, last, harness>>

\* line 72: env is the caller's argument, not the local of
\* _prepare_process_args
LaunchKernelExcept ==
    /\ pc = "except" /\ fn = "launch_kernel"
    /\ \E lg \in (IF req.env = "None" THEN {"-"} ELSE LoggerOutcomes) :
          LET h == HandleSubprocessException(exc, cmd, req.env = "None",
                                             callerEnv, kwargs, lg)
          IN  /\ obs' = [obs EXCEPT !.logger = lg]
              /\ log' = log \o h.log
              /\ exc' = h.raised
              /\ IF h.raised # "None"
                 THEN /\ pc' = "raised"
                      /\ trace' = trace \o [j \in 1..Len(h.log) |-> "log"]
                                  \o <<"raise">>
                 ELSE /\ pc' = "spawned"
                      /\ trace' = trace \o [j \in 1..Len(h.log) |-> "log"]
    /\ UNCHANGED <<world, callerEnv, callerEnv0, fn, req, startEnv, kwargs,
                   interrupt_event, cmd, proc, last, harness>>

\* lines 74-76
LaunchKernelFinish ==
    /\ pc = "spawned" /\ fn = "launch_kernel"
    /\ LET f == FinishProcessLaunch(proc, req.stdin, interrupt_event)
       IN  IF f.raised # "None"
           THEN /\ pc' = "raised" /\ exc' = f.raised /\ proc' = proc
                /\ trace' = trace \o <<"raise">>
           ELSE /\ pc' = "returned" /\ exc' = exc /\ proc' = f.proc
                /\ trace' = trace \o f.events \o <<"return">>
    /\ UNCHANGED <<world, callerEnv, callerEnv0, fn, req, startEnv, kwargs,
                   interrupt_event, cmd, log, obs, last, harness>>


(***************************************************************************)
(* async_launch_kernel                                                     *)
(***************************************************************************)
\* lines 119-120
AsyncLaunchKernelPrepare ==
    /\ pc = "called" /\ fn = "async_launch_kernel"
    /\ \E o \in PrepOracles :
          LET res == PrepareProcessArgs(req, callerEnv, o)
          IN  /\ obs' = [obs EXCEPT !.token = o.token, !.winres = o.winres]
              /\ callerEnv' = IF req.env # "None" THEN res.env ELSE callerEnv
              /\ IF res.raised # "None"
                 THEN /\ pc' = "raised" /\ exc' = res.raised
                      /\ trace' = trace \o <<"raise">>
                      /\ UNCHANGED <<kwargs, interrupt_event>>
                 ELSE /\ pc' = "prepared" /\ exc' = exc
                      /\ trace' = trace \o <<"prepare">>
                      /\ kwargs' = res.kwargs
                      /\ interrupt_event' = res.interrupt_event
    /\ UNCHANGED <<world, callerEnv0, fn, req, startEnv, cmd, proc, log, last,
                   harness>>

\* what the command becomes at line 124, variant: the expansion is forgotten
AsyncCmdUnexpanded(c) == c

\* line 124
AsyncCmd(c) == ExpandCmd(c)

\* lines 122-132, up to the call of the primitive: on win32 Popen runs to
\* completion here, elsewhere the coroutine suspends in
\* create_subprocess_exec
AsyncLaunchKernelSpawn ==
    /\ pc = "prepared" /\ fn = "async_launch_kernel"
    /\ cmd' = AsyncCmd(cmd)
    /\ IF platform = "win32"
       THEN \E out \in {x \in SpawnOutcomes(kwargs) : Replays("spawn", x)} :
               LET e == SpawnException(out, "Popen")
               IN  /\ obs' = [obs EXCEPT !.spawn = out, !.primitive = "Popen"]
                   /\ IF out = "ok"
                      THEN /\ proc' = NewProcess("Popen", kwargs)
                           /\ pc' = "spawned" /\ exc' = exc
                           /\ trace' = trace \o <<"spawn">>
                      ELSE /\ proc' = proc /\ exc' = e
                           /\ pc' = IF IsException(e) THEN "except"
                                    ELSE "raised"
                           /\ trace' = trace \o <<"spawn">>
                                       \o (IF IsException(e) THEN <<>>
                                           ELSE <<"raise">>)
       ELSE /\ obs' = [obs EXCEPT !.primitive = "create_subprocess_exec"]
            /\ pc' = "awaiting"
            /\ trace' = trace \o <<"await">>
            /\ UNCHANGED <<proc, exc>>
    /\ UNCHANGED <<world, callerEnv, callerEnv0, fn, req, startEnv, kwargs,
                   interrupt_event, log, last, harness>>

\* line 132: the awaited create_subprocess_exec completes
AsyncLaunchKernelResume ==
    /\ pc = "awaiting" /\ fn = "async_launch_kernel"
    /\ \E out \in {x \in SpawnOutcomes(kwargs) : Replays("spawn", x)} :
          LET e == SpawnException(out, "create_subprocess_exec")
          IN  /\ obs' = [obs EXCEPT !.spawn = out]
              /\ IF out = "ok"
                 THEN /\ proc' = NewProcess("create_subprocess_exec", kwargs)
                      /\ pc' = "spawned" /\ exc' = exc
                      /\ trace' = trace \o <<"spawn">>
                 ELSE /\ proc' = proc /\ exc' = e
                      /\ pc' = IF IsException(e) THEN "except" ELSE "raised"
                      /\ trace' = trace \o <<"spawn">>
                                  \o (IF IsException(e) THEN <<>> ELSE <<"raise">>)
    /\ UNCHANGED <<world, callerEnv, callerEnv0, fn, req, startEnv, kwargs,
                   interrupt_event, cmd, log, last, harness>>

\* line 134
AsyncLaunchKernelExcept ==
    /\ pc = "except" /\ fn = "async_launch_kernel"
    /\ \E lg \in (IF req.env = "None" THEN {"-"} ELSE LoggerOutcomes) :
          LET h == HandleSubprocessException(exc, cmd, req.env = "None",
                                             callerEnv, kwargs, lg)
          IN  /\ obs' = [obs EXCEPT !.logger = lg]
              /\ log' = log \o h.log
              /\ exc' = h.raised
              /\ IF h.raised # "None"
                 THEN /\ pc' = "raised"
                      /\ trace' = trace \o [j \in 1..Len(h.log) |-> "log"]
                                  \o <<"raise">>
                 ELSE /\ pc' = "spawned"
                      /\ trace' = trace \o [j \in 1..Len(h.log) |-> "log"]
    /\ UNCHANGED <<world, callerEnv, callerEnv0, fn, req, startEnv, kwargs,
                   interrupt_event, cmd, proc, last, harness>>

\* lines 136-138
AsyncLaunchKernelFinish ==
    /\ pc = "spawned" /\ fn = "async_launch_kernel"
    /\ LET f == FinishProcessLaunch(proc, req.stdin, interrupt_event)
       IN  IF f.raised # "None"
           THEN /\ pc' = "raised" /\ exc' = f.raised /\ proc' = proc
                /\ trace' = trace \o <<"raise">>
           ELSE /\ pc' = "returned" /\ exc' = exc /\ proc' = f.proc
                /\ trace' = trace \o f.events \o <<"return">>
    /\ UNCHANGED <<world, callerEnv, callerEnv0, fn, req, startEnv, kwargs,
                   interrupt_event, cmd, log, obs, last, harness>>

Next ==
    \/ Call
    \/ CallTwin
    \/ Done
    \/ LaunchKernelPrepare
    \/ LaunchKernelSpawn
    \/ LaunchKernelExcept
    \/ LaunchKernelFinish
    \/ AsyncLaunchKernelPrepare
    \/ AsyncLaunchKernelSpawn
    \/ AsyncLaunchKernelResume
    \/ AsyncLaunchKernelExcept
    \/ AsyncLaunchKernelFinish

Spec == Init /\ [][Next]_vars

(***************************************************************************)
(* Command expansion on its own: list(map(os.path.expanduser, cmd)) for    *)
(* every short command over a small alphabet, every home-directory lookup  *)
(* result and passwd database.                                             *)
(***************************************************************************)
Alphabet == {"~", "/", "u"}

Paths == UNION {[1..n -> Alphabet] : n \in 0..MaxLen}

Cmds == UNION {[1..n -> Paths] : n \in 0..MaxCmd}

HomeChoices == {NoHome, <<"/", "h", "/">>, <<"/">>}

PwdbChoices == {[n \in {} |-> <<>>], [n \in {<<"u">>} |-> <<"/", "r">>]}

InitExpand ==
    /\ platform = "linux"
    /\ redirect_out = FALSE
    /\ os_environ = [k \in {"PATH"} |-> "/usr/bin"]
    /\ userhome \in HomeChoices
    /\ pwdb \in PwdbChoices
    /\ callerEnv = EmptyDict
    /\ callerEnv0 = callerEnv
    /\ FrameIdle
    /\ last = <<>>
    /\ xcmd \in Cmds
    /\ xout = [done |-> FALSE, cmd |-> <<>>]

Expand ==
    /\ ~xout.done
    /\ xout' = [done |-> TRUE, cmd |-> ExpandCmd(xcmd)]
    /\ UNCHANGED <<world, callerEnv, callerEnv0, frame, last, xcmd>>

NextExpand == Expand

SpecExpand == InitExpand /\ [][NextExpand]_vars


(***************************************************************************)
(* Vocabulary of the properties                                            *)
(***************************************************************************)
Events(t) == {t[j] : j \in 1..Len(t)}

Count(t, ev) == Cardinality({j \in 1..Len(t) : t[j] = ev})

\* position of the first ev in t, 0 if there is none
First(t, ev) == IF ev \in Events(t)
                THEN CHOOSE j \in 1..Len(t) : t[j] = ev /\ \A i \in 1..(j - 1) : t[i] # ev
                ELSE 0

\* _prepare_process_args has returned the plan of this call
PlanBuilt == "prepare" \in Events(trace)

\* the plan has been handed to a spawn primitive
Handed == obs.primitive # "-"

\* the spawn primitive has raised in this call
SpawnRaised == obs.spawn \notin {"-", "ok"}

GroupMechanism ==
    \/ Get(kwargs, "start_new_session", FALSE)
    \/ HasBit(Get(kwargs, "creationflags", 0), CREATE_NEW_PROCESS_GROUP)

TokenMechanism == interrupt_event # NoEvent

InterruptKeys == {"JPY_INTERRUPT_EVENT", "IPY_INTERRUPT_EVENT"}

(***************************************************************************)
(* C1                                                                      *)
(***************************************************************************)
\* C1: no launch call mutates the mapping object the caller passed as env:
\* after any sequence of calls the caller's mapping has the keys and values
\* it had when the caller built it.
C1_CallerEnvNeverMutated == callerEnv = callerEnv0

(***************************************************************************)
(* C2                                                                      *)
(***************************************************************************)
\* C2: the environment handed to the spawn primitive contains JPY_PARENT_PID
\* when independent is false, and on a POSIX target does not contain it when
\* independent is true, whatever the starting environment was.
C2_ParentPidIffNotIndependent ==
    Handed =>
        /\ ~req.independent => "JPY_PARENT_PID" \in DOMAIN kwargs["env"]
        /\ (req.independent /\ platform # "win32")
              => "JPY_PARENT_PID" \notin DOMAIN kwargs["env"]

(***************************************************************************)
(* C3                                                                      *)
(***************************************************************************)
\* C3: when the spawn primitive raises an Exception, the call reaches the
\* caller with the error sink invoked exactly once, on a diagnostic that
\* holds the command list and the PATH of the intended child environment
\* (the system default PATH when it has none), also when env was not given.
C3_SpawnFailureLoggedOnce ==
    (pc = "raised" /\ SpawnRaised /\ IsException(SpawnException(obs.spawn, obs.primitive)))
        => /\ Len(log) = 1
           /\ log[1].cmd = cmd
           /\ log[1].PATH = Get(kwargs["env"], "PATH", Defpath)

(***************************************************************************)
(* C4                                                                      *)
(***************************************************************************)
\* C4: once the spawn primitive has raised, the call ends by raising that
\* same exception, also when the diagnostic could not be built or logged; it
\* holds no process, has invoked the primitive once, never finalizes, and
\* the assertion of _finish_process_launch never fails.
C4_SpawnFailureReraised ==
    /\ exc # "AssertionError"
    /\ SpawnRaised =>
          /\ pc \in {"except", "raised"}
          /\ exc = SpawnException(obs.spawn, obs.primitive)
          /\ proc = NoProc
          /\ Count(trace, "spawn") = 1
          /\ Events(trace) \cap {"attach", "close", "return"} = {}

\* C4 witness: a spawn failure whose diagnostic failed has been raised
C4_Witness ==
    /\ pc = "raised" /\ obs.spawn = "ENOENT" /\ exc = "FileNotFoundError"
    /\ obs.logger = "raises" /\ fn = "async_launch_kernel"

(***************************************************************************)
(* C5                                                                      *)
(***************************************************************************)
\* C5: with no explicit stdin the primitive is handed a pipe, and a launch
\* that returns has closed the launcher-side end of it, after the spawn and
\* before the return.
C5_SynthesizedStdinClosed ==
    req.stdin = "None" =>
        /\ Handed => kwargs["stdin"] = PIPE
        /\ pc = "returned" =>
              /\ proc.stdin = "closed"
              /\ 0 < First(trace, "spawn")
              /\ First(trace, "spawn") < First(trace, "close")
              /\ First(trace, "close") < First(trace, "return")
        /\ (proc # NoProc /\ proc.stdin = "closed") => pc = "returned"

\* C5 witness: an asynchronous launch without stdin has returned
C5_Witness ==
    /\ pc = "returned" /\ req.stdin = "None" /\ fn = "async_launch_kernel"
    /\ platform # "win32" /\ proc.stdin = "closed"

(***************************************************************************)
(* C6                                                                      *)
(***************************************************************************)
\* C6: on win32 the environment handed to the primitive holds
\* JPY_INTERRUPT_EVENT and IPY_INTERRUPT_EVENT with the same value, the text
\* of the created token, and a returned process carries that token in
\* win32_interrupt_event; elsewhere no token exists and the two variables
\* are as they were in the starting environment.
C6_InterruptEvent ==
    /\ (platform = "win32" /\ Handed) =>
          /\ interrupt_event \in Tokens
          /\ interrupt_event = obs.token
          /\ InterruptKeys \subseteq DOMAIN kwargs["env"]
          /\ kwargs["env"]["JPY_INTERRUPT_EVENT"] = Str(interrupt_event)
          /\ kwargs["env"]["IPY_INTERRUPT_EVENT"]
                = kwargs["env"]["JPY_INTERRUPT_EVENT"]
    /\ (platform = "win32" /\ pc = "returned") =>
          /\ "win32_interrupt_event" \in DOMAIN proc.attrs
          /\ Str(proc.attrs["win32_interrupt_event"])
                = kwargs["env"]["JPY_INTERRUPT_EVENT"]
    /\ (platform # "win32" /\ PlanBuilt) =>
          /\ interrupt_event = NoEvent
          /\ \A k \in InterruptKeys :
                /\ k \in DOMAIN kwargs["env"] <=> k \in DOMAIN startEnv
                /\ k \in DOMAIN startEnv => kwargs["env"][k] = startEnv[k]
          /\ proc # NoProc => "win32_interrupt_event" \notin DOMAIN proc.attrs

\* C6 witness: an independent win32 launch has returned with its token
C6_Witness ==
    /\ platform = "win32" /\ pc = "returned" /\ req.independent
    /\ proc.attrs["win32_interrupt_event"] = 12
    /\ kwargs["env"]["IPY_INTERRUPT_EVENT"] = "12"

(***************************************************************************)
(* C7                                                                      *)
(***************************************************************************)
\* C7 as stated: every plan sets up exactly one of process-group/session
\* creation and interrupt-token injection.
C7_ExactlyOneMechanism ==
    PlanBuilt => (GroupMechanism /\ ~TokenMechanism) \/ (~GroupMechanism /\ TokenMechanism)

\* C7 as amended: every plan sets up at least one of the two mechanisms; off
\* win32 it is session creation and no token; on win32 the token is always
\* injected and, when independent is true, the new-process-group flag is set
\* as well.
C7_AtLeastOneMechanism ==
    PlanBuilt =>
        /\ GroupMechanism \/ TokenMechanism
        /\ platform # "win32" =>
              /\ Get(kwargs, "start_new_session", FALSE)
              /\ ~TokenMechanism
        /\ platform = "win32" =>
              /\ TokenMechanism
              /\ kwargs["env"]["JPY_INTERRUPT_EVENT"] = Str(interrupt_event)
              /\ req.independent =>
                    HasBit(Get(kwargs, "creationflags", 0),
                           CREATE_NEW_PROCESS_GROUP)

\* C7 witness: an independent win32 plan with both mechanisms
C7_Witness ==
    /\ PlanBuilt /\ platform = "win32" /\ req.independent
    /\ req.kw = EmptyDict /\ GroupMechanism /\ TokenMechanism

StartsWithTilde(p) == Len(p) > 0 /\ p[1] = "~"

\* "~" alone or "~/...": the invoking user's own home is meant
OwnTilde(p) == StartsWithTilde(p) /\ (Len(p) = 1 \/ p[2] = "/")

IsPrefix(a, b) == Len(a) <= Len(b) /\ SubSeq(b, 1, Len(a)) = a

IsSuffix(a, b) ==
    Len(a) <= Len(b) /\ SubSeq(b, Len(b) - Len(a) + 1, Len(b)) = a

\* the name between "~" and the first "/" of p
TildeName(p) ==
    LET f == Find(p, "/", 2)
    IN  SubSeq(p, 2, (IF f = 0 THEN Len(p) + 1 ELSE f) - 1)

\* q is dir, without trailing slashes, followed by rest ("/" if that is empty)
HomePlus(q, dir, rest) ==
    LET d == RStrip(dir, "/")
    IN  IF d = <<>> /\ rest = <<>> THEN q = <<"/">>
        ELSE IsPrefix(d, q) /\ IsSuffix(rest, q) /\ Len(q) = Len(d) + Len(rest)

WithoutAwait(t) == SelectSeq(t, LAMBDA ev : ev # "await")

\* the process handle apart from the class of the primitive that made it
Handle(p) == IF p = NoProc THEN <<>> ELSE <<p.stdin, p.attrs>>

\* the previous call was the same request to the other function and the OS
\* and the logger have answered the same way in both
SameCase ==
    /\ last # <<>>
    /\ last[1].fn # fn /\ last[1].req = req /\ last[1].startEnv = startEnv
    /\ last[1].obs.token = obs.token /\ last[1].obs.winres = obs.winres
    /\ last[1].obs.spawn = obs.spawn /\ last[1].obs.logger = obs.logger

\* C10: on the same request and the same answers of the OS, launch_kernel
\* and async_launch_kernel end the same way with the same plan, token,
\* expanded command, diagnostics, finalization and effect on the caller's
\* mapping; only the primitive differs: create_subprocess_exec for the async
\* function off win32, Popen otherwise; and the async function suspends at
\* most once, in the process creation, never after it.
C10_AsyncSameAsSync ==
    /\ (pc \in {"returned", "raised"} /\ SameCase) =>
          /\ last[1].pc = pc
          /\ last[1].kwargs = kwargs
          /\ last[1].interrupt_event = interrupt_event
          /\ last[1].cmd = cmd
          /\ last[1].log = log
          /\ obs.spawn # "interrupted" => last[1].exc = exc
          /\ Handle(last[1].proc) = Handle(proc)
          /\ WithoutAwait(last[1].trace) = WithoutAwait(trace)
          /\ last[1].envAfter = (IF req.env = "None" THEN EmptyDict ELSE callerEnv)
    /\ Handed =>
          obs.primitive = IF fn = "async_launch_kernel" /\ platform # "win32"
                          THEN "create_subprocess_exec" ELSE "Popen"
    /\ (pc = "awaiting" \/ "await" \in Events(trace)) =>
          /\ fn = "async_launch_kernel" /\ platform # "win32"
          /\ Count(trace, "await") = 1
          /\ First(trace, "await") = First(trace, "prepare") + 1
          /\ IF pc = "awaiting" THEN First(trace, "await") = Len(trace)
             ELSE First(trace, "spawn") = First(trace, "await") + 1

\* C10 witness: an async launch off win32 has returned after the same
\* request went through launch_kernel
C10_Witness ==
    /\ pc = "returned" /\ SameCase /\ fn = "async_launch_kernel"
    /\ platform # "win32" /\ req.cmd = CmdTilde /\ req.stdin = "None"
    /\ obs.primitive = "create_subprocess_exec"


====
